---- MODULE Spec2Model ----
(***************************************************************************)
(* State-machine model of cddis_downloader/downloader.py: the FTP session  *)
(* (CDDISFTPClient), its retry loops, the local materializer and the DOY   *)
(* loop of main().                                                         *)
(*                                                                         *)
(* A file name is a sequence of tokens (<<"BRST","crx","gz">> stands for   *)
(* "BRST.crx.gz"); a string the user types, and a zero-padded DOY or hour  *)
(* string, is a sequence of characters; archive folders and local paths    *)
(* are keyed by the integer a zero-padded name denotes. Every remote       *)
(* operation has a nondeterministic outcome.                               *)
(***************************************************************************)
EXTENDS Integers, Sequences, FiniteSets, TLC

\* ---------------------------------------------------------------- bounds
MaxDoy == 2
MaxHour == 2
MaxRuns == 2
MaxInputLen == 5

Doys == 1..MaxDoy
Hours == 0..MaxHour

\* ------------------------------------------------------ program constants
max_retries_plus_one == 3 + 1

max_retries == 3
max_reconnect_attempts == 3
reconnect_delay_init == 5
doy_retry_wait == 30

\* --------------------------------------------------------------- archive
\* The remote archive is fixed during a run: DOY 1 holds hour folders 00 and
\* 01 (and one entry that is no hour folder), every other DOY holds nothing.
HourEntry(h) == [digits |-> TRUE, len |-> 2, val |-> h]
OtherEntry == [digits |-> FALSE, len |-> 5, val |-> 0]

ArchiveHourEntries(d) ==
  IF d = 1 THEN {HourEntry(0), HourEntry(1), OtherEntry} ELSE {}

ArchiveFiles(d, h) ==
  IF d # 1 THEN {}
  ELSE IF h = 0 THEN {<<"BRST", "crx", "gz">>, <<"BRST", "txt">>}
  ELSE IF h = 1 THEN {<<"ABMF", "crx", "gz">>, <<"BRST", "crx", "gz">>}
  ELSE {}

\* Every name in ascending string order, as sorted() orders them.
NameOrder ==
  << <<"ABMF", "crx">>, <<"ABMF", "crx", "gz">>, <<"ABMF", "rnx">>,
     <<"BRST", "crx">>, <<"BRST", "crx", "gz">>, <<"BRST", "rnx">>,
     <<"BRST", "txt">> >>

Names == {NameOrder[i] : i \in 1..Len(NameOrder)}
LocalPaths == {<<d, h, n>> : d \in Doys, h \in Hours, n \in Names}
Stations == {"", "BRST"}

\* ------------------------------------------------------- string helpers
\* f.endswith('.crx.gz')
EndsWithCrxGz(n) ==
  Len(n) >= 2 /\ n[Len(n) - 1] = "crx" /\ n[Len(n)] = "gz"

\* f.startswith(station_filter)
StartsWithAnything(n, stn) == Len(n) >= 1

StartsWith(n, stn) == Len(n) >= 1 /\ n[1] = stn

\* local_path.replace('.crx.gz', '.rnx')
ReplaceCrxGzByRnx(n) ==
  IF EndsWithCrxGz(n) THEN SubSeq(n, 1, Len(n) - 2) \o <<"rnx">> ELSE n

\* local_path.replace('.gz', '')
RemoveGz(n) == SelectSeq(n, LAMBDA t : t # "gz")

\* Path.with_suffix(''): the last suffix is dropped
WithoutSuffix(n) == SubSeq(n, 1, Len(n) - 1)

\* Path.with_suffix('.rnx'): the last suffix is replaced
WithSuffixRnx(n) == SubSeq(n, 1, Len(n) - 1) \o <<"rnx">>

\* sorted() of a set of names
SortedNames(S) == SelectSeq(NameOrder, LAMBDA n : n \in S)

\* sorted() of a set of two-digit hour strings
RECURSIVE SortedHours(_)
SortedHours(S) ==
  IF S = {} THEN <<>>
  ELSE LET m == CHOOSE x \in S : \A y \in S : x <= y
       IN <<m>> \o SortedHours(S \ {m})

\* [h for h in hour_folders if h in available_hours]
FilterIn(seq, avail) ==
  SelectSeq(seq, LAMBDA h : \E i \in 1..Len(avail) : avail[i] = h)

\* range(start, end + 1) as a sequence
Range(a, b) == [i \in 1..(b - a + 1) |-> a + i - 1]

\* -------------------------------------------------------- validate_range
DigitChars == <<"0", "1", "2", "3", "4", "5", "6", "7", "8", "9">>

IsDigit(c) == \E i \in 1..10 : DigitChars[i] = c
DigitVal(c) == (CHOOSE i \in 1..10 : DigitChars[i] = c) - 1

\* '-' in value
HasDash(s) == \E i \in 1..Len(s) : s[i] = "-"

\* value.split('-')
RECURSIVE Split(_)
Split(s) ==
  IF ~HasDash(s) THEN <<s>>
  ELSE LET i == CHOOSE k \in 1..Len(s) :
                  s[k] = "-" /\ \A j \in 1..(k - 1) : s[j] # "-"
       IN <<SubSeq(s, 1, i - 1)>> \o Split(SubSeq(s, i + 1, Len(s)))

\* int(tok) does not raise ValueError: tok is a non-empty run of digits
IsInt(tok) == tok # <<>> /\ \A i \in 1..Len(tok) : IsDigit(tok[i])

\* int(tok)
RECURSIVE IntOf(_)
IntOf(tok) ==
  IF tok = <<>> THEN 0
  ELSE IntOf(SubSeq(tok, 1, Len(tok) - 1)) * 10 + DigitVal(tok[Len(tok)])

\* str(n): the decimal digits of n
RECURSIVE Digits(_)
Digits(n) ==
  IF n < 10 THEN <<DigitChars[n + 1]>>
  ELSE Digits(n \div 10) \o <<DigitChars[(n % 10) + 1]>>

\* f"{n:0wd}": zeros are put in front while the digits are fewer than w
NoPad(n, w) == Digits(n)

ZeroPad(n, w) ==
  LET d == Digits(n)
  IN IF Len(d) >= w THEN d ELSE [i \in 1..(w - Len(d)) |-> "0"] \o d

\* validate_range(value, min_val, max_val, name): [] on empty input, on a
\* ValueError (int() of a token, or unpacking other than two tokens), on
\* start > end and on out-of-bounds; else the padded strings start..end
validate_range(value, min_val, max_val, name) ==
  IF value = <<>> THEN <<>>
  ELSE LET parts == Split(value)
           isRange == HasDash(value)
           noValueError == IF isRange
                           THEN Len(parts) = 2 /\ IsInt(parts[1]) /\ IsInt(parts[2])
                           ELSE IsInt(value)
       IN IF ~noValueError THEN <<>>
          ELSE LET start == IF isRange THEN IntOf(parts[1]) ELSE IntOf(value)
                   end == IF isRange THEN IntOf(parts[2]) ELSE IntOf(value)
                   width == IF name = "DOY" THEN 3 ELSE 2
               IN IF isRange /\ start > end THEN <<>>
                  ELSE IF start < min_val \/ end > max_val THEN <<>>
                  ELSE [i \in 1..(end - start + 1) |->
                          ZeroPad(Range(start, end)[i], width)]

validate_hour(hour) == validate_range(hour, 0, 23, "hour")
validate_doy(d) == validate_range(d, 1, 366, "DOY")

\* the integers a sequence of zero-padded strings denotes
Nums(seq) == [i \in 1..Len(seq) |-> IntOf(seq[i])]

\* ------------------------------------------------------------ user input
\* the answers typed at the DOY and hour prompts of a run: nothing, a
\* letter, one value, or a range of two neighbouring values (also a
\* reversed one, and DOY 0)
Ch(n) == DigitChars[n + 1]

RangeInputs(S) ==
  {<<>>, <<"x">>} \cup {<<Ch(a)>> : a \in S}
                  \cup {<<Ch(r[1]), "-", Ch(r[2])>> :
                          r \in {q \in S \X S : q[1] - q[2] \in {-1, 1}}}

DoyInputs == RangeInputs(0..MaxDoy)
HourInputs == RangeInputs(Hours)

\* every string of at most n characters over the alphabet A
RECURSIVE StringsUpTo(_, _)
StringsUpTo(A, n) ==
  IF n = 0 THEN {<<>>}
  ELSE LET shorter == StringsUpTo(A, n - 1)
       IN shorter \cup {Append(s, c) : s \in shorter, c \in A}

InputAlphabet == {"0", "2", "3", "4", "6", "7", "-", "x"}
AnyInput == StringsUpTo(InputAlphabet, MaxInputLen)


\* ------------------------------------------------------------- variables
VARIABLES
  station,          \* station filter, "" when none was entered
  doy_input,        \* the string typed at the DOY prompt
  hour_input,       \* the string typed at the hour prompt
  doy_list,         \* validated DOY sequence of 3-digit strings
  hour_list,        \* validated hour sequence of 2-digit strings, <<>>: all
  extract_files,    \* extraction flag
  convert_to_rnx,   \* conversion flag (after check_crx2rnx_availability)
  run,              \* number of the current run of main()
  pc,               \* position of the program
  doy_index,        \* main: index of the current DOY (0-based)
  valid_hours,      \* main: hours processed in this pass
  hour_pos,         \* main: position of the hour loop in valid_hours
  crx_files,        \* main: result of list_crx_files for the current hour
  file_pos,         \* main: position of the file loop in crx_files
  success,          \* main: the pass's success flag
  dl_ok,            \* main: result of the last download_file call
  ftp,              \* client.ftp: "None" or "Conn"
  retry_count,      \* list_crx_files / download_file: retry_count
  rc_attempt,       \* reconnect: connect attempts made by the current call
  reconnect_delay,  \* reconnect: reconnect_delay
  rc_caller,        \* reconnect: the call site to return to
  local,            \* local files: path -> "absent" | "partial" | "full"
  dirs,             \* local directories created by os.makedirs
  attempts,         \* remote attempts made by the current list/download call
  tryOk,            \* outcome of the latest attempt of the current call
  waited,           \* time.sleep() performed by the latest step
  halfOpen,         \* latest connect() left an opened connection unclosed
  connectResult,    \* return value of the latest connect(): none/ok/failed
  hoursErr,         \* this pass: list_hour_subfolders caught an exception
  listErr,          \* this pass: a list_crx_files call degraded to []
  dlErr,            \* this pass: a download_file call returned False
  surfaced,         \* this pass: connection failure returned to main
  owed,             \* the hour loop of the current DOY has ended in failure
  closes,           \* the close() calls made by the latest step, in order
  mat               \* outcome of extract_and_convert in the latest step

reqVars == <<station, doy_input, hour_input, doy_list, hour_list, extract_files,
            convert_to_rnx>>
mainVars == <<doy_index, valid_hours, hour_pos, crx_files, file_pos, success, dl_ok>>
callVars == <<retry_count, attempts, tryOk>>
rcVars == <<rc_attempt, reconnect_delay, rc_caller>>
connVars == <<ftp, halfOpen, connectResult>>
fsVars == <<local, dirs>>
passFlags == <<hoursErr, listErr, dlErr, surfaced>>
vars == <<reqVars, run, pc, mainVars, callVars, rcVars, connVars, fsVars,
          waited, passFlags, owed, closes, mat>>

\* ------------------------------------------------------------ the session
ConnectOutcomes == {"ok", "open", "login", "prot_p", "set_pasv"}

\* CDDISFTPClient.connect with the step that raises, "ok" when none does. The
\* handler only drops the handle: a connection opened before the failing
\* step is not closed by the code. Whether the runtime finalizes the dropped
\* FTP_TLS object (and with it the socket) by the time connect() returns is
\* not decided by the code: fin is either.
connect(o, fin) ==
  [ftp  |-> IF o = "ok" THEN "Conn" ELSE "None",
   ok   |-> o = "ok",
   half |-> o \notin {"ok", "open"} /\ ~fin]

\* CDDISFTPClient.close: quit() if connected, errors swallowed, handle cleared
close_keeps_handle(f) == f

close(f) == "None"

\* one call of close() on handle f, q the outcome of quit(): whether QUIT
\* was sent, whether quit() raised, whether close() raised to its caller
\* (the except clause catches it, the finally clause clears the handle).
\* quit() is called, and has an outcome, only when there is a handle.
QuitOutcomes(f) == IF f # "None" THEN {"ok", "err"} ELSE {"none"}

close_always_quits(f, q) ==
  [ftp |-> close(f), sent |-> TRUE, err |-> q = "err", raised |-> FALSE]

close_call(f, q) ==
  IF f # "None"
  THEN [ftp |-> close(f), sent |-> TRUE, err |-> q = "err", raised |-> FALSE]
  ELSE [ftp |-> f, sent |-> FALSE, err |-> FALSE, raised |-> FALSE]

\* ------------------------------------------------------- the materializer
\* "open_err": gzip.open or open(crx_path, 'wb') raises, nothing is written;
\* "gunzip_err": copyfileobj raises after crx_path was created;
\* "conv_missing": the converter is not at its path; "conv_err": it exits
\* non-zero; "conv_ok": it exits zero and has written the .rnx file.
MaterializeOutcomes(conv) ==
  IF conv THEN {"open_err", "gunzip_err", "conv_missing", "conv_err", "conv_ok"}
  ELSE {"open_err", "gunzip_err", "ok"}

\* whether extract_and_convert raises to main: every failure is caught by
\* the handler at the end of the method
open_error_raises(o) == o = "open_err"

extract_raises(o) == FALSE

\* the file tree when the compressed file is unlinked before it is read
unlink_before_extract(fs, p, conv, o) ==
  LET crx == <<p[1], p[2], WithoutSuffix(p[3])>>
  IN IF o = "open_err" THEN [fs EXCEPT ![p] = "absent"]
     ELSE IF o = "gunzip_err" THEN [fs EXCEPT ![p] = "absent", ![crx] = "partial"]
     ELSE [fs EXCEPT ![p] = "absent", ![crx] = "full"]

\* CDDISFTPClient.extract_and_convert on the downloaded file p = <<d, h, n>>
extract_and_convert(fs, p, conv, o) ==
  LET crx == <<p[1], p[2], WithoutSuffix(p[3])>>
      rnx == <<p[1], p[2], WithSuffixRnx(crx[3])>>
  IN IF o = "open_err"
     THEN fs
     ELSE IF o = "gunzip_err"
     THEN [fs EXCEPT ![crx] = "partial"]
     ELSE IF conv /\ o = "conv_ok"
     THEN [fs EXCEPT ![p] = "absent", ![crx] = "absent", ![rnx] = "full"]
     ELSE [fs EXCEPT ![p] = "absent", ![crx] = "full"]

\* os.remove(local_path) if os.path.exists(local_path)
keep_partial(fs, p) == fs

remove_partial(fs, p) == [fs EXCEPT ![p] = "absent"]

\* ------------------------------------------------------------------ Init
\* the state of a run before its inputs are validated
BeforeValidation ==
  /\ doy_list = <<>>
  /\ hour_list = <<>>
  /\ run = 1
  /\ pc = "validate"
  /\ doy_index = 0
  /\ valid_hours = <<>>
  /\ hour_pos = 0
  /\ crx_files = <<>>
  /\ file_pos = 0
  /\ success = TRUE
  /\ dl_ok = TRUE
  /\ ftp = "None"
  /\ retry_count = 0
  /\ rc_attempt = 0
  /\ reconnect_delay = reconnect_delay_init
  /\ rc_caller = "none"
  /\ local = [p \in LocalPaths |-> "absent"]
  /\ dirs = {}
  /\ attempts = 0
  /\ tryOk = "none"
  /\ waited = 0
  /\ halfOpen = FALSE
  /\ connectResult = "none"
  /\ hoursErr = FALSE
  /\ listErr = FALSE
  /\ dlErr = FALSE
  /\ surfaced = "none"
  /\ owed = FALSE
  /\ closes = <<>>
  /\ mat = "none"

Init ==
  /\ station \in Stations
  /\ doy_input \in DoyInputs
  /\ hour_input \in HourInputs
  /\ extract_files \in BOOLEAN
  /\ convert_to_rnx \in {c \in BOOLEAN : c => extract_files}
  /\ BeforeValidation

\* any string at one of the two prompts, the other answered validly
InitValidate ==
  /\ station = ""
  /\ \E v \in AnyInput :
       \/ doy_input = v /\ hour_input = <<>>
       \/ doy_input = <<"3">> /\ hour_input = v
  /\ extract_files = FALSE
  /\ convert_to_rnx = FALSE
  /\ BeforeValidation

doy == IntOf(doy_list[doy_index + 1])
hour_subdir == valid_hours[hour_pos]
file_name == crx_files[file_pos]
local_path == <<doy, hour_subdir, file_name>>


\* ------------------------------------------------------------------ main
\* the two return statements of the validation: no DOY, or an hour input
\* that was given and is invalid
doy_only_fails(dl, hi, hl) == dl = <<>>

validation_fails(dl, hi, hl) == dl = <<>> \/ (hi # <<>> /\ hl = <<>>)

\* doy_list = validate_doy(doy_input); hour_list = validate_hour(hour_input)
\* if hour_input else []; return when the validation failed
Validate ==
  /\ pc = "validate"
  /\ LET dl == validate_doy(doy_input)
         hl == IF dl = <<>> THEN <<>>
               ELSE IF hour_input # <<>> THEN validate_hour(hour_input)
               ELSE <<>>
     IN /\ doy_list' = dl
        /\ hour_list' = hl
        /\ pc' = IF validation_fails(dl, hour_input, hl) THEN "aborted" ELSE "loop"
  /\ waited' = 0
  /\ closes' = <<>>
  /\ mat' = "none"
  /\ UNCHANGED <<station, doy_input, hour_input, extract_files, convert_to_rnx,
                 run, mainVars, callVars, rcVars, connVars, fsVars, passFlags,
                 owed>>

\* The locals of a session call that has returned are dead: they take their
\* initial values again.
CallLocalsDead ==
  /\ retry_count' = 0
  /\ attempts' = 0
  /\ tryOk' = "none"
  /\ rc_attempt' = 0
  /\ reconnect_delay' = reconnect_delay_init
  /\ rc_caller' = "none"

\* Leaving the body of the DOY loop: the finally clause closes the session
\* and the loop goes back to its head; the locals of the pass are dead. On
\* the two retry paths (early) client.close() has been called before the
\* continue statement, so the finally clause closes a second time.
ExitPass(newIndex, w, early) ==
  /\ doy_index' = newIndex
  /\ \E q1 \in QuitOutcomes(ftp) :
       LET first == IF early THEN <<close_call(ftp, q1)>> ELSE <<>>
           held == IF early THEN first[1].ftp ELSE ftp
       IN \E q2 \in QuitOutcomes(held) :
            LET last == close_call(held, q2)
            IN /\ closes' = Append(first, last)
               /\ ftp' = last.ftp
  /\ mat' = "none"
  /\ waited' = w
  /\ pc' = "loop"
  /\ valid_hours' = <<>>
  /\ hour_pos' = 0
  /\ crx_files' = <<>>
  /\ file_pos' = 0
  /\ success' = TRUE
  /\ dl_ok' = TRUE
  /\ CallLocalsDead

\* while doy_index < len(doy_list): client = CDDISFTPClient(); connect()
StartPass ==
  /\ pc = "loop"
  /\ doy_index < Len(doy_list)
  /\ \E o \in ConnectOutcomes, fin \in BOOLEAN :
       LET c == connect(o, fin)
       IN /\ ftp' = c.ftp
          /\ halfOpen' = c.half
          /\ connectResult' = IF c.ok THEN "ok" ELSE "failed"
          /\ pc' = IF c.ok THEN "list_hours" ELSE "loop"
          /\ waited' = IF c.ok THEN 0 ELSE doy_retry_wait
          /\ surfaced' = IF c.ok THEN "none" ELSE "connect"
  /\ hoursErr' = FALSE
  /\ listErr' = FALSE
  /\ dlErr' = FALSE
  /\ closes' = <<>>
  /\ mat' = "none"
  /\ UNCHANGED <<reqVars, run, mainVars, callVars, rcVars, fsVars, owed>>

\* the loop condition fails: print("All operations completed.")
Finish ==
  /\ pc = "loop"
  /\ doy_index >= Len(doy_list)
  /\ pc' = "done"
  /\ waited' = 0
  /\ closes' = <<>>
  /\ mat' = "none"
  /\ UNCHANGED <<reqVars, run, mainVars, callVars, rcVars, connVars, fsVars,
                 passFlags, owed>>

\* CDDISFTPClient.list_hour_subfolders: r = "err" when cwd or LIST raises
list_hour_subfolders(f, d, r) ==
  IF f = "None" \/ r = "err" THEN <<>>
  ELSE SortedHours({e.val : e \in {x \in ArchiveHourEntries(d) :
                                     x.digits /\ x.len = 2}})

\* main, steps 4-7: list the hours, filter them, create the DOY directory
ListHours ==
  /\ pc = "list_hours"
  /\ \E r \in {"ok", "err"}, mk \in {"ok", "err"} :
       LET available_hours == list_hour_subfolders(ftp, doy, r)
           hour_folders == IF hour_list # <<>> THEN Nums(hour_list)
                           ELSE available_hours
           valid == FilterIn(hour_folders, available_hours)
       IN /\ hoursErr' = (r = "err")
          /\ IF available_hours = <<>> \/ valid = <<>>
             THEN /\ ExitPass(doy_index + 1, 0, FALSE)
                  /\ owed' = FALSE
                  /\ dirs' = dirs
             ELSE IF mk = "err"
             THEN /\ ExitPass(doy_index, doy_retry_wait, TRUE)
                  /\ owed' = owed
                  /\ dirs' = dirs
             ELSE /\ dirs' = dirs \cup {<<doy>>}
                  /\ valid_hours' = valid
                  /\ hour_pos' = 1
                  /\ success' = TRUE
                  /\ pc' = "hour_loop"
                  /\ waited' = 0
                  /\ closes' = <<>>
                  /\ mat' = "none"
                  /\ UNCHANGED <<doy_index, crx_files, file_pos, dl_ok, ftp,
                                 callVars, rcVars, owed>>
  /\ UNCHANGED <<reqVars, run, halfOpen, connectResult, local, listErr, dlErr,
                 surfaced>>

\* for hour_subdir in valid_hours: call client.list_crx_files(...)
HourStep ==
  /\ pc = "hour_loop"
  /\ IF hour_pos > Len(valid_hours)
     THEN /\ pc' = "pass_end"
          /\ UNCHANGED callVars
     ELSE /\ pc' = "list_head"
          /\ retry_count' = 0
          /\ attempts' = 0
          /\ tryOk' = "none"
  /\ waited' = 0
  /\ closes' = <<>>
  /\ mat' = "none"
  /\ UNCHANGED <<reqVars, run, mainVars, rcVars, connVars, fsVars, passFlags,
                 owed>>

\* main after list_crx_files returned: empty -> next hour, else mkdir the hour
AfterList ==
  /\ pc = "list_ret"
  /\ IF crx_files = <<>>
     THEN /\ hour_pos' = hour_pos + 1
          /\ pc' = "hour_loop"
          /\ UNCHANGED <<file_pos, success, dirs>>
     ELSE \E mk \in {"ok", "err"} :
            IF mk = "err"
            THEN /\ success' = FALSE
                 /\ pc' = "pass_end"
                 /\ UNCHANGED <<hour_pos, file_pos, dirs>>
            ELSE /\ dirs' = dirs \cup {<<doy, hour_subdir>>}
                 /\ file_pos' = 1
                 /\ pc' = "file_loop"
                 /\ UNCHANGED <<hour_pos, success>>
  /\ waited' = 0
  /\ closes' = <<>>
  /\ mat' = "none"
  /\ CallLocalsDead
  /\ UNCHANGED <<reqVars, run, doy_index, valid_hours, crx_files, dl_ok,
                 connVars, local, passFlags, owed>>

\* os.path.exists
exists(fs, p) == fs[p] # "absent"

\* for file_name in crx_files: the two skip tests, else call download_file
FileStep ==
  /\ pc = "file_loop"
  /\ IF file_pos > Len(crx_files)
     THEN /\ hour_pos' = hour_pos + 1
          /\ pc' = "hour_loop"
          /\ UNCHANGED <<file_pos, callVars>>
     ELSE LET rnx_path == <<doy, hour_subdir, ReplaceCrxGzByRnx(file_name)>>
              crx_path == <<doy, hour_subdir, RemoveGz(file_name)>>
          IN IF exists(local, rnx_path) \/ exists(local, crx_path)
             THEN /\ file_pos' = file_pos + 1
                  /\ pc' = "file_loop"
                  /\ UNCHANGED <<hour_pos, callVars>>
             ELSE /\ pc' = "dl_head"
                  /\ retry_count' = 0
                  /\ attempts' = 0
                  /\ tryOk' = "none"
                  /\ UNCHANGED <<hour_pos, file_pos>>
  /\ waited' = 0
  /\ closes' = <<>>
  /\ mat' = "none"
  /\ UNCHANGED <<reqVars, run, doy_index, valid_hours, crx_files, success, dl_ok,
                 rcVars, connVars, fsVars, passFlags, owed>>

\* main after download_file returned: materialize, or mark the pass failed
\* and break (the break leaves the file loop only). An exception out of
\* extract_and_convert would be caught by the handler of the hour loop,
\* which marks the pass failed and leaves the hour loop.
AfterDownload ==
  /\ pc = "dl_ret"
  /\ IF dl_ok
     THEN /\ IF extract_files
             THEN \E o \in MaterializeOutcomes(convert_to_rnx) :
                    /\ local' = extract_and_convert(local, local_path,
                                                    convert_to_rnx, o)
                    /\ mat' = o
                    /\ IF extract_raises(o)
                       THEN /\ success' = FALSE
                            /\ pc' = "pass_end"
                            /\ UNCHANGED file_pos
                       ELSE /\ file_pos' = file_pos + 1
                            /\ pc' = "file_loop"
                            /\ UNCHANGED success
             ELSE /\ local' = local
                  /\ mat' = "none"
                  /\ file_pos' = file_pos + 1
                  /\ pc' = "file_loop"
                  /\ UNCHANGED success
          /\ UNCHANGED <<hour_pos, dlErr>>
     ELSE /\ success' = FALSE
          /\ dlErr' = TRUE
          /\ hour_pos' = hour_pos + 1
          /\ pc' = "hour_loop"
          /\ mat' = "none"
          /\ UNCHANGED <<file_pos, local>>
  /\ waited' = 0
  /\ closes' = <<>>
  /\ CallLocalsDead
  /\ UNCHANGED <<reqVars, run, doy_index, valid_hours, crx_files, dl_ok,
                 connVars, dirs, hoursErr, listErr, surfaced, owed>>

\* main after the hour loop: advance on success, else close, sleep and retry
PassEnd ==
  /\ pc = "pass_end"
  /\ IF success
     THEN /\ ExitPass(doy_index + 1, 0, FALSE)
          /\ owed' = FALSE
     ELSE /\ ExitPass(doy_index, doy_retry_wait, TRUE)
          /\ owed' = TRUE
  /\ UNCHANGED <<reqVars, run, halfOpen, connectResult, fsVars, passFlags>>

\* main() is started again with the same answers and the same local tree
Rerun ==
  /\ pc = "done"
  /\ run < MaxRuns
  /\ run' = run + 1
  /\ pc' = "validate"
  /\ doy_list' = <<>>
  /\ hour_list' = <<>>
  /\ doy_index' = 0
  /\ owed' = FALSE
  /\ waited' = 0
  /\ closes' = <<>>
  /\ mat' = "none"
  /\ hoursErr' = FALSE
  /\ listErr' = FALSE
  /\ dlErr' = FALSE
  /\ surfaced' = "none"
  /\ halfOpen' = FALSE
  /\ connectResult' = "none"
  /\ UNCHANGED <<station, doy_input, hour_input, extract_files, convert_to_rnx,
                 valid_hours, hour_pos, crx_files, file_pos, success, dl_ok,
                 callVars, rcVars, ftp, fsVars>>


\* -------------------------------------------------------- list_crx_files
\* the listing of one hour directory, filtered and sorted
crx_listing(d, h, stn) ==
  LET files == ArchiveFiles(d, h)
      crx == {f \in files : EndsWithCrxGz(f)}
      kept == IF stn # "" THEN {f \in crx : StartsWith(f, stn)} ELSE crx
  IN SortedNames(kept)

\* entering reconnect() from call site c
CallReconnect(c) ==
  /\ pc' = "reconnect"
  /\ rc_caller' = c
  /\ rc_attempt' = 0
  /\ reconnect_delay' = reconnect_delay_init

\* list_crx_files returns lst to main
ListReturn(lst) ==
  /\ crx_files' = lst
  /\ pc' = "list_ret"

\* while retry_count < max_retries: if not self.ftp: reconnect
ListHead ==
  /\ pc = "list_head"
  /\ IF retry_count >= max_retries
     THEN /\ ListReturn(<<>>)
          /\ listErr' = TRUE
          /\ UNCHANGED rcVars
     ELSE IF ftp = "None"
     THEN /\ CallReconnect("list_pre")
          /\ UNCHANGED <<crx_files, listErr>>
     ELSE /\ pc' = "list_try"
          /\ UNCHANGED <<crx_files, listErr, rcVars>>
  /\ waited' = 0
  /\ closes' = <<>>
  /\ mat' = "none"
  /\ UNCHANGED <<reqVars, run, doy_index, valid_hours, hour_pos, file_pos, success,
                 dl_ok, callVars, connVars, fsVars, hoursErr, dlErr, surfaced,
                 owed>>

\* the try body: cwd + LIST; on an exception retry_count += 1
ListTry ==
  /\ pc = "list_try"
  /\ attempts' = attempts + 1
  /\ \E r \in {"ok", "err"} :
       IF r = "ok"
       THEN /\ ListReturn(crx_listing(doy, hour_subdir, station))
            /\ tryOk' = "ok"
            /\ UNCHANGED retry_count
       ELSE /\ retry_count' = retry_count + 1
            /\ tryOk' = "fail"
            /\ pc' = "list_exc"
            /\ UNCHANGED crx_files
  /\ waited' = 0
  /\ closes' = <<>>
  /\ mat' = "none"
  /\ UNCHANGED <<reqVars, run, doy_index, valid_hours, hour_pos, file_pos, success,
                 dl_ok, rcVars, connVars, fsVars, passFlags, owed>>

\* the except body: reconnect while retries are left, else give up with []
ListRetry ==
  /\ pc = "list_exc"
  /\ IF retry_count < max_retries
     THEN /\ CallReconnect("list_exc")
          /\ UNCHANGED <<crx_files, listErr>>
     ELSE /\ ListReturn(<<>>)
          /\ listErr' = TRUE
          /\ UNCHANGED rcVars
  /\ waited' = 0
  /\ closes' = <<>>
  /\ mat' = "none"
  /\ UNCHANGED <<reqVars, run, doy_index, valid_hours, hour_pos, file_pos, success,
                 dl_ok, callVars, connVars, fsVars, hoursErr, dlErr, surfaced,
                 owed>>

\* --------------------------------------------------------- download_file
\* download_file returns ok to main
DownloadReturn(ok) ==
  /\ dl_ok' = ok
  /\ pc' = "dl_ret"

\* while retry_count < max_retries: if not self.ftp: reconnect
DownloadHead ==
  /\ pc = "dl_head"
  /\ IF retry_count >= max_retries
     THEN /\ DownloadReturn(FALSE)
          /\ UNCHANGED rcVars
     ELSE IF ftp = "None"
     THEN /\ CallReconnect("dl_pre")
          /\ UNCHANGED dl_ok
     ELSE /\ pc' = "dl_try"
          /\ UNCHANGED <<dl_ok, rcVars>>
  /\ waited' = 0
  /\ closes' = <<>>
  /\ mat' = "none"
  /\ UNCHANGED <<reqVars, run, doy_index, valid_hours, hour_pos, crx_files,
                 file_pos, success, callVars, connVars, fsVars, passFlags, owed>>

\* the try body: cwd, open(local_path, 'wb'), RETR. "cwd_err" raises before
\* the local file is opened, "retr_err" after it was created or truncated.
DownloadTry ==
  /\ pc = "dl_try"
  /\ attempts' = attempts + 1
  /\ \E r \in {"ok", "cwd_err", "retr_err"} :
       IF r = "ok"
       THEN /\ local' = [local EXCEPT ![local_path] = "full"]
            /\ DownloadReturn(TRUE)
            /\ tryOk' = "ok"
       ELSE /\ local' = IF r = "retr_err"
                        THEN [local EXCEPT ![local_path] = "partial"]
                        ELSE local
            /\ tryOk' = "fail"
            /\ pc' = "dl_clean"
            /\ UNCHANGED dl_ok
  /\ waited' = 0
  /\ closes' = <<>>
  /\ mat' = "none"
  /\ UNCHANGED <<reqVars, run, doy_index, valid_hours, hour_pos, crx_files,
                 file_pos, success, retry_count, rcVars, connVars, dirs,
                 passFlags, owed>>

\* the except body, first half: remove the local file, retry_count += 1
DownloadCleanup ==
  /\ pc = "dl_clean"
  /\ local' = IF exists(local, local_path)
              THEN remove_partial(local, local_path) ELSE local
  /\ retry_count' = retry_count + 1
  /\ pc' = "dl_exc"
  /\ waited' = 0
  /\ closes' = <<>>
  /\ mat' = "none"
  /\ UNCHANGED <<reqVars, run, mainVars, attempts, tryOk, rcVars, connVars, dirs,
                 passFlags, owed>>

\* the except body, second half: reconnect while retries are left, else fail
DownloadRetry ==
  /\ pc = "dl_exc"
  /\ IF retry_count < max_retries
     THEN /\ CallReconnect("dl_exc")
          /\ UNCHANGED dl_ok
     ELSE /\ DownloadReturn(FALSE)
          /\ UNCHANGED rcVars
  /\ waited' = 0
  /\ closes' = <<>>
  /\ mat' = "none"
  /\ UNCHANGED <<reqVars, run, doy_index, valid_hours, hour_pos, crx_files,
                 file_pos, success, callVars, connVars, fsVars, passFlags, owed>>

\* -------------------------------------------------------------- reconnect
\* reconnect_delay *= 2
same_delay(d) == d

next_delay(d) == d * 2

\* one iteration of reconnect()'s loop: close(), connect(), and on failure
\* sleep(reconnect_delay) and double it; the call returns True at the first
\* success and False after max_reconnect_attempts failures. The return takes
\* the caller to its next step.
ReconnectAttempt ==
  /\ pc = "reconnect"
  /\ rc_attempt < max_reconnect_attempts
  /\ \E q \in QuitOutcomes(ftp), o \in ConnectOutcomes, fin \in BOOLEAN :
       LET closed == close_call(ftp, q)
           c == connect(o, fin)
           exhausted == rc_attempt + 1 >= max_reconnect_attempts
           lister == rc_caller \in {"list_pre", "list_exc"}
       IN /\ closes' = <<closed>>
          /\ mat' = "none"
          /\ ftp' = c.ftp
          /\ halfOpen' = c.half
          /\ connectResult' = IF c.ok THEN "ok" ELSE "failed"
          /\ rc_attempt' = rc_attempt + 1
          /\ IF c.ok
             THEN /\ waited' = 0
                  /\ pc' = CASE rc_caller = "list_pre" -> "list_try"
                             [] rc_caller = "list_exc" -> "list_head"
                             [] rc_caller = "dl_pre" -> "dl_try"
                             [] OTHER -> "dl_head"
                  /\ UNCHANGED <<reconnect_delay, crx_files, dl_ok, listErr, surfaced>>
             ELSE /\ waited' = reconnect_delay
                  /\ reconnect_delay' = next_delay(reconnect_delay)
                  /\ IF ~exhausted
                     THEN /\ pc' = "reconnect"
                          /\ UNCHANGED <<crx_files, dl_ok, listErr, surfaced>>
                     ELSE IF lister
                     THEN /\ ListReturn(<<>>)
                          /\ listErr' = TRUE
                          /\ surfaced' = "list"
                          /\ UNCHANGED dl_ok
                     ELSE /\ DownloadReturn(FALSE)
                          /\ surfaced' = "download"
                          /\ UNCHANGED <<crx_files, listErr>>
  /\ UNCHANGED <<reqVars, run, doy_index, valid_hours, hour_pos, file_pos, success,
                 callVars, rc_caller, fsVars, hoursErr, dlErr, owed>>

\* ------------------------------------------------------------------ Next
Next ==
  \/ Validate
  \/ StartPass
  \/ Finish
  \/ ListHours
  \/ HourStep
  \/ ListHead
  \/ ListTry
  \/ ListRetry
  \/ AfterList
  \/ FileStep
  \/ DownloadHead
  \/ DownloadTry
  \/ DownloadCleanup
  \/ DownloadRetry
  \/ AfterDownload
  \/ ReconnectAttempt
  \/ PassEnd

Spec == Init /\ [][Next]_vars

\* the same program, run again after it has ended
NextRerun ==
  \/ Next
  \/ Rerun

SpecRerun == Init /\ [][NextRerun]_vars

\* the run as a process that never stops taking its next step
SpecLive == Init /\ [][Next]_vars /\ WF_vars(Next)

\* the validation alone, on any input string
NextValidate == Validate

SpecValidate == InitValidate /\ [][NextValidate]_vars

TypeOK ==
  /\ pc \in {"validate", "aborted", "loop", "list_hours", "hour_loop", "list_head", "list_try",
             "list_exc", "list_ret", "file_loop", "dl_head", "dl_try",
             "dl_clean", "dl_exc", "dl_ret", "reconnect", "pass_end", "done"}
  /\ ftp \in {"None", "Conn"}
  /\ doy_index \in 0..Len(doy_list)
  /\ run \in 1..MaxRuns
  /\ retry_count \in 0..max_retries


\* ---------------------------------------------------------------- claims
ListPcs == {"list_head", "list_try", "list_exc", "list_ret"}
DownloadPcs == {"dl_head", "dl_try", "dl_clean", "dl_exc", "dl_ret"}
InCallPcs == {"list_head", "list_try", "list_exc", "dl_head", "dl_try",
              "dl_clean", "dl_exc", "reconnect"}

\* C1: the DOY index never advances in a pass in which the hour listing, a
\* file listing or a download failed: it advances only after a pass whose
\* listings and downloads all succeeded, or when the archive has no hour
\* folder or none of the requested hours for the DOY.
C1_NoAdvanceOnTransientFailure ==
  [][doy_index' > doy_index => ~(hoursErr' \/ listErr' \/ dlErr')]_vars

\* C2: once download_file has returned failure in a pass, no listing, local
\* directory creation or download is issued for a later hour in that pass.
C2_NoHourAfterDownloadFailure ==
  dlErr => pc \notin (ListPcs \cup DownloadPcs \cup {"file_loop", "reconnect"})

\* the first half of C3 alone: what the failing pass itself does
FailedPassKeepsDoy ==
  [][(pc = "pass_end" /\ ~success)
       => (doy_index' = doy_index /\ ftp' = "None" /\ waited' = 30
           /\ pc' = "loop")]_vars

\* C3: a failed pass leaves the DOY index unchanged, closes the session,
\* waits 30 and goes back to the head of the loop for the same DOY; and once
\* a pass of a DOY has failed the index moves on only by a successful pass.
C3_FailedPassRetriedUntilSuccess ==
  [][/\ (pc = "pass_end" /\ ~success)
          => (doy_index' = doy_index /\ ftp' = "None" /\ waited' = 30
              /\ pc' = "loop")
     /\ (owed /\ doy_index' # doy_index) => (pc = "pass_end" /\ success)]_vars

\* C4: a file that download_file has completed in an earlier pass of the run
\* is not downloaded again, whatever the extraction and conversion flags;
\* stated here for the flags both off. The local tree is empty when the run
\* starts, so a complete file at local_path when a download_file call starts
\* was written by an earlier call that returned True.
C4_NoRedownloadAfterRetry ==
  (~extract_files /\ pc = "dl_head" /\ retry_count = 0)
    => local[local_path] # "full"

\* C5: a second run with the same request on the local tree the first run
\* left issues no download; in particular, with extraction off, it starts no
\* download of a file that the tree already holds complete.
C5_SecondRunDownloadsNothing ==
  (run >= 2 /\ ~extract_files /\ pc = "dl_head" /\ retry_count = 0)
    => local[local_path] # "full"

\* C6: a call of list_crx_files or download_file makes at most 3 remote
\* attempts, and after a successful attempt the call has returned: no further
\* attempt or reconnect of that call follows.
C6_AtMostThreeAttempts ==
  /\ attempts <= 3
  /\ tryOk = "ok" => pc \notin InCallPcs

\* a listing that gave up after its third failed attempt
C6_Witness ==
  pc = "list_ret" /\ attempts = 3 /\ tryOk = "fail" /\ crx_files = <<>>

\* C7: after a failed download attempt the local file is removed before the
\* reconnect or the retry, so a call that returns failure after at least one
\* attempt leaves no file at local_path; a file is there after the call only
\* if the call returned success.
C7_FailedDownloadLeavesNoFile ==
  /\ pc = "dl_exc" => ~exists(local, local_path)
  /\ (pc = "reconnect" /\ rc_caller = "dl_exc") => ~exists(local, local_path)
  /\ (pc \in {"dl_head", "dl_try"} /\ retry_count > 0)
       => ~exists(local, local_path)
  /\ (pc = "dl_ret" /\ ~dl_ok /\ attempts >= 1) => ~exists(local, local_path)
  /\ (pc = "dl_ret" /\ exists(local, local_path)) => dl_ok

\* a download that returned failure after three attempts, nothing left behind
C7_Witness ==
  pc = "dl_ret" /\ ~dl_ok /\ attempts = 3 /\ ~exists(local, local_path)

\* C8: when connect() fails, a connection opened during the call has been
\* closed, the session holds no handle and the failure is the return value.
C8_FailedConnectClosesConnection ==
  connectResult = "failed" => (ftp = "None" /\ ~halfOpen)

\* the halves of C9: a failure reaches main only after reconnect() has
\* made all its attempts; the pass it reaches main in does not advance
SurfacedAfterBackoff ==
  [][(surfaced' # surfaced /\ surfaced' # "none")
       => rc_attempt' = max_reconnect_attempts]_vars

SurfacedFailureRetriesDoy ==
  [][surfaced' # "none" => doy_index' = doy_index]_vars

\* C9: a connection failure is returned to main only after reconnect() has
\* used up its attempts, and the pass it happens in (initial connect, file
\* listing or download) does not advance the DOY: the same DOY is retried.
C9_ConnectFailureIsRetryableDoyFailure ==
  [][/\ (surfaced' # surfaced /\ surfaced' # "none")
          => rc_attempt' = max_reconnect_attempts
     /\ surfaced' # "none" => doy_index' = doy_index]_vars

\* C10: whenever a new pass starts or the run ends, the session of the pass
\* before holds no connection handle.
C10_SessionClosedBetweenPasses ==
  pc \in {"loop", "done"} => ftp = "None"

\* a pass that had connected and failed is over, back at the loop head
C10_Witness ==
  pc = "loop" /\ owed /\ connectResult = "ok" /\ ftp = "None"

\* C11: close() leaves the session without a handle whatever the state it is
\* called in, an error of quit() does not leave close(), the second of two
\* consecutive close() calls sends no QUIT, and the connect() that follows a
\* close() succeeds whenever the server answers every step of it.
C11_CloseIdempotentAndTotal ==
  /\ \A i \in 1..Len(closes) : closes[i].ftp = "None" /\ ~closes[i].raised
  /\ Len(closes) = 2 => ~closes[2].sent
  /\ (closes # <<>> /\ pc = "loop") => ftp = "None"
  /\ (closes # <<>> /\ pc # "loop") => (connectResult = "ok" <=> ftp = "Conn")
  /\ pc = "reconnect"
       => ENABLED (ReconnectAttempt /\ connectResult' = "ok" /\ ftp' = "Conn")

\* a failed pass: quit() raised in the first close(), the second sent nothing
C11_Witness ==
  /\ pc = "loop" /\ Len(closes) = 2
  /\ closes[1].sent /\ closes[1].err /\ ~closes[2].sent
  /\ ftp = "None"

\* C12: every iteration of reconnect() closes the session and then connects;
\* there are at most 3; the first connect that succeeds returns True to the
\* caller; after the k-th failure the call sleeps 5 * 2^(k-1); it returns
\* False after the 3rd failure and not before, with no handle left.
C12_ReconnectBoundedBackoff ==
  [][pc = "reconnect" =>
       /\ rc_attempt < 3
       /\ rc_attempt' = rc_attempt + 1
       /\ Len(closes') = 1
       /\ closes'[1].sent = (ftp = "Conn")
       /\ closes'[1].ftp = "None"
       /\ connectResult' = "ok"
            => /\ ftp' = "Conn"
               /\ waited' = 0
               /\ pc' \in {"list_try", "list_head", "dl_try", "dl_head"}
       /\ connectResult' = "failed"
            => /\ ftp' = "None"
               /\ waited' = 5 * 2 ^ (rc_attempt' - 1)
               /\ (pc' = "reconnect") = (rc_attempt' < 3)
               /\ pc' # "reconnect"
                    => \/ pc' = "list_ret" /\ crx_files' = <<>>
                       \/ pc' = "dl_ret" /\ ~dl_ok']_vars

\* a listing whose reconnect() gave up after the third failed connect
C12_Witness ==
  /\ pc = "list_ret" /\ rc_attempt = 3 /\ waited = 20
  /\ connectResult = "failed" /\ ftp = "None"

\* C13: when validate_doy gives no DOY, or an hour input was given and
\* validate_hour gives no hour, the run ends with no connect issued (and so
\* no listing or download, no file and no directory); an empty hour input
\* does not end the run, and the hours of a pass are then all the hours the
\* archive holds for the DOY.
C13_ValidationPrecedesNetwork ==
  /\ pc = "validate" => (run = 1 => connectResult = "none")
  /\ (pc # "validate" /\ (doy_list = <<>> \/ (hour_input # <<>> /\ hour_list = <<>>)))
       => /\ pc = "aborted"
          /\ connectResult = "none" /\ ftp = "None"
          /\ attempts = 0 /\ rc_attempt = 0
          /\ dirs = {} /\ \A p \in LocalPaths : local[p] = "absent"
  /\ (pc # "validate" /\ doy_list # <<>> /\ hour_input = <<>>)
       => /\ pc # "aborted"
          /\ hour_list = <<>>
  /\ (pc = "hour_loop" /\ hour_input = <<>>)
       => valid_hours = SortedHours({e.val : e \in {x \in ArchiveHourEntries(doy) :
                                                     x.digits /\ x.len = 2}})

\* a run that ended on its hour input, the DOY input being valid
C13_Witness ==
  pc = "aborted" /\ doy_list # <<>> /\ hour_input # <<>> /\ hour_list = <<>>

\* the range parser of the specification: a run of digits, or two of them
\* around one separator, start <= end within [lo, hi]; every value written
\* with exactly w digits
RefDigits == {"0", "1", "2", "3", "4", "5", "6", "7", "8", "9"}

RefDigit(c) ==
  CASE c = "0" -> 0 [] c = "1" -> 1 [] c = "2" -> 2 [] c = "3" -> 3
    [] c = "4" -> 4 [] c = "5" -> 5 [] c = "6" -> 6 [] c = "7" -> 7
    [] c = "8" -> 8 [] c = "9" -> 9

RefNumeric(t) == Len(t) > 0 /\ \A i \in 1..Len(t) : t[i] \in RefDigits

RECURSIVE RefValue(_)
RefValue(t) ==
  IF t = <<>> THEN 0
  ELSE RefDigit(Head(t)) * 10 ^ (Len(t) - 1) + RefValue(Tail(t))

RefFormat(n, w) ==
  [i \in 1..w |-> CHOOSE c \in RefDigits : RefDigit(c) = (n \div 10 ^ (w - i)) % 10]

parseRange(input, lo, hi, w) ==
  LET seps == {i \in 1..Len(input) : input[i] = "-"}
  IN IF input = <<>> THEN <<>>
     ELSE IF seps = {}
     THEN IF RefNumeric(input) /\ RefValue(input) \in lo..hi
          THEN <<RefFormat(RefValue(input), w)>>
          ELSE <<>>
     ELSE IF Cardinality(seps) = 1
     THEN LET k == CHOOSE i \in seps : TRUE
              a == SubSeq(input, 1, k - 1)
              b == SubSeq(input, k + 1, Len(input))
          IN IF /\ RefNumeric(a) /\ RefNumeric(b)
                /\ lo <= RefValue(a) /\ RefValue(a) <= RefValue(b)
                /\ RefValue(b) <= hi
             THEN [i \in 1..(RefValue(b) - RefValue(a) + 1) |->
                     RefFormat(RefValue(a) + i - 1, w)]
             ELSE <<>>
     ELSE <<>>

DecompressedOf(p) == <<p[1], p[2], SubSeq(p[3], 1, Len(p[3]) - 1)>>
ConvertedOf(p) == <<p[1], p[2], SubSeq(p[3], 1, Len(p[3]) - 2) \o <<"rnx">> >>
DecompressFailures == {"open_err", "gunzip_err"}

\* C15: in the materialization of a downloaded file the compressed file is
\* deleted if and only if the decompression succeeded; the decompressed file
\* is deleted only when conversion was requested, the converter was there
\* and exited with zero; when the converter is missing or fails, or no
\* conversion was requested, the decompressed file stays and the compressed
\* file is gone.
C15_MaterializationLifecycle ==
  [][(pc = "dl_ret" /\ dl_ok /\ extract_files) =>
       LET p == local_path
           crx == DecompressedOf(p)
       IN /\ mat' \in MaterializeOutcomes(convert_to_rnx)
          /\ (local'[p] = "absent") = (mat' \notin DecompressFailures)
          /\ mat' \in DecompressFailures => local'[p] = "full"
          /\ (mat' \notin DecompressFailures /\ local'[crx] = "absent")
               => (convert_to_rnx /\ mat' = "conv_ok")
          /\ mat' \in {"conv_missing", "conv_err", "ok"}
               => (local'[crx] = "full" /\ local'[p] = "absent")
          /\ mat' = "conv_ok"
               => (local'[crx] = "absent" /\ local'[ConvertedOf(p)] = "full")]_vars

\* the converter failed on BRST of hour 00: .crx kept, .crx.gz gone, no .rnx
C15_Witness ==
  /\ mat = "conv_err" /\ pc = "file_loop" /\ hour_subdir = 0
  /\ local[<<1, 0, <<"BRST", "crx">> >>] = "full"
  /\ local[<<1, 0, <<"BRST", "crx", "gz">> >>] = "absent"
  /\ local[<<1, 0, <<"BRST", "rnx">> >>] = "absent"

\* C16: whatever the outcome of extract_and_convert, main goes on with the
\* next file of the hour and the success flag, the DOY and the session are
\* as before; the flag is cleared only by a failed download or an exception
\* in the hour loop outside the materializer, and a pass that ends with the
\* flag set advances the DOY.
C16_MaterializationFailureIsolated ==
  [][/\ (pc = "dl_ret" /\ dl_ok /\ extract_files)
          => /\ success' = success
             /\ pc' = "file_loop"
             /\ file_pos' = file_pos + 1
             /\ hour_pos' = hour_pos
             /\ valid_hours' = valid_hours
             /\ crx_files' = crx_files
             /\ doy_index' = doy_index
             /\ ftp' = ftp
             /\ dlErr' = dlErr
     /\ (success /\ ~success')
          => ((pc = "dl_ret" /\ ~dl_ok) \/ pc = "list_ret")
     /\ (pc = "pass_end" /\ success) => doy_index' = doy_index + 1]_vars

\* a first pass that ends with success although the decompression of BRST
\* of hour 00 failed partway, hour 01 having been materialized after it
C16_Witness ==
  /\ pc = "pass_end" /\ success /\ ~owed /\ run = 1
  /\ local[<<1, 0, <<"BRST", "crx">> >>] = "partial"
  /\ local[<<1, 1, <<"BRST", "crx">> >>] = "full"

\* the hour names the archive holds for DOY d, and those of them requested
ArchiveHours(d) == {e.val : e \in {x \in ArchiveHourEntries(d) : x.digits /\ x.len = 2}}

RequestedAvailable(d) ==
  LET wanted == IF hour_list = <<>> THEN ArchiveHours(d)
                ELSE {IntOf(hour_list[i]) : i \in 1..Len(hour_list)}
  IN wanted \cap ArchiveHours(d)

Ascending(seq) == \A i \in 1..Len(seq) : \A j \in 1..Len(seq) : i < j => seq[i] < seq[j]

\* C17 for a pass whose hour listing did not fail
HoursFilteredWhenListed ==
  [][(pc = "list_hours" /\ ~hoursErr') =>
       /\ RequestedAvailable(doy) = {}
            => (doy_index' = doy_index + 1 /\ dirs' = dirs /\ pc' = "loop")
       /\ RequestedAvailable(doy) # {}
            => \/ /\ pc' = "hour_loop"
                  /\ {valid_hours'[i] : i \in 1..Len(valid_hours')} = RequestedAvailable(doy)
                  /\ Ascending(valid_hours')
               \/ pc' = "loop" /\ doy_index' = doy_index /\ dirs' = dirs]_vars

\* no local directory for an hour that the archive does not hold
NoDirectoryForAbsentHour ==
  \A e \in dirs : Len(e) = 2 => e[2] \in ArchiveHours(e[1])

\* C17: the hours of a pass are the requested hours that the archive holds
\* for the DOY (all it holds when none were requested), ascending; when
\* there are none the DOY is advanced and no directory is created and no
\* listing or download issued; when there are some the DOY is not advanced
\* by this step; and no directory is created for an hour the archive does
\* not hold.
C17_HoursAreRequestedAndAvailable ==
  [][/\ pc = "list_hours" =>
          /\ RequestedAvailable(doy) = {}
               => (doy_index' = doy_index + 1 /\ dirs' = dirs /\ pc' = "loop")
          /\ RequestedAvailable(doy) # {}
               => \/ /\ pc' = "hour_loop"
                     /\ {valid_hours'[i] : i \in 1..Len(valid_hours')}
                          = RequestedAvailable(doy)
                     /\ Ascending(valid_hours')
                  \/ pc' = "loop" /\ doy_index' = doy_index /\ dirs' = dirs
     /\ \A e \in dirs' : Len(e) = 2 => e[2] \in ArchiveHours(e[1])]_vars

\* position of a name in ascending string order
NameRank(n) == CHOOSE i \in 1..Len(NameOrder) : NameOrder[i] = n

InDownload ==
  pc \in DownloadPcs \/ (pc = "reconnect" /\ rc_caller \in {"dl_pre", "dl_exc"})

\* C18: while download_file runs, its file is in the archive directory of
\* the current hour, ends in .crx.gz and starts with the station filter if
\* there is one; the files of an hour are taken in ascending name order, one
\* after the other; extract_and_convert runs only right after the download
\* of its file returned True, the file being there, and only when
\* extraction was requested.
C18_DownloadsComeFromListing ==
  [][/\ InDownload =>
          /\ file_name \in ArchiveFiles(doy, hour_subdir)
          /\ Len(file_name) >= 2
          /\ file_name[Len(file_name) - 1] = "crx" /\ file_name[Len(file_name)] = "gz"
          /\ station # "" => file_name[1] = station
          /\ \A i \in 1..Len(crx_files) : \A j \in 1..Len(crx_files) :
                i < j => NameRank(crx_files[i]) < NameRank(crx_files[j])
     /\ (pc \in {"file_loop"} \cup DownloadPcs /\ pc' \in {"file_loop"} \cup DownloadPcs)
          => (crx_files' = crx_files /\ file_pos' \in {file_pos, file_pos + 1})
     /\ mat' # "none"
          => /\ pc = "dl_ret" /\ dl_ok /\ tryOk = "ok"
             /\ extract_files
             /\ local[local_path] = "full"]_vars

\* with the filter BRST, hour 01 (ABMF and BRST in the archive): BRST only
C18_Witness ==
  /\ pc = "dl_try" /\ station = "BRST" /\ hour_subdir = 1
  /\ crx_files = << <<"BRST", "crx", "gz">> >> /\ file_pos = 1

\* a step in which a connect, a listing, a download attempt or a local
\* directory creation fails
FailingStep ==
  \/ pc = "loop" /\ doy_index < Len(doy_list) /\ connectResult' = "failed"
  \/ pc = "reconnect" /\ connectResult' = "failed"
  \/ pc = "list_hours" /\ (hoursErr' \/ (pc' = "loop" /\ doy_index' = doy_index))
  \/ pc \in {"list_try", "dl_try"} /\ tryOk' = "fail"
  \/ pc = "list_ret" /\ success /\ ~success'

\* the run ends when from some point on no operation fails
TerminatesWhenHealthy ==
  <>[][~FailingStep]_vars => <>(pc \in {"done", "aborted"})

\* the DOYs are taken in ascending order and the run ends by the exit of
\* the DOY loop only
EndsByLoopExitOnly ==
  [][/\ doy_index' \in {doy_index, doy_index + 1}
     /\ pc' = "done" => (pc = "loop" /\ doy_index = Len(doy_list))
     /\ pc' = "aborted" => pc = "validate"]_vars

\* a file of DOY d that the request needs, whose hour directory was created
\* (so its hour was begun) and of which the local tree holds nothing: its
\* download, or one before it in the hour, failed and has not succeeded since
NeededFileMissing(d) ==
  \E h \in RequestedAvailable(d) : \E n \in ArchiveFiles(d, h) :
    /\ Len(n) >= 2 /\ n[Len(n) - 1] = "crx" /\ n[Len(n)] = "gz"
    /\ station # "" => n[1] = station
    /\ <<d, h>> \in dirs
    /\ local[<<d, h, n>>] = "absent"
    /\ local[DecompressedOf(<<d, h, n>>)] = "absent"
    /\ local[ConvertedOf(<<d, h, n>>)] = "absent"

\* C19: when from some point on no operation fails (the local directory
\* creations, which the claim does not name, included) the run ends; the
\* DOYs are passed in ascending order and the run ends by the exit of the
\* DOY loop only; and the loop does not go on to a later DOY, or end, while
\* a needed file whose download failed is still not downloaded.
C19_RunEndsOnlyAfterEveryDoy ==
  /\ <>[][~FailingStep]_vars => <>(pc \in {"done", "aborted"})
  /\ [][/\ doy_index' \in {doy_index, doy_index + 1}
        /\ pc' = "done" => (pc = "loop" /\ doy_index = Len(doy_list))
        /\ pc' = "aborted" => pc = "validate"
        /\ doy_index' > doy_index => ~NeededFileMissing(doy)]_vars

\* C20: a file is skipped on its .crx counterpart only when that
\* counterpart is the complete result of a decompression: a decompression
\* that failed partway leaves nothing that makes main skip the file.
C20_SkipOnCrxImpliesComplete ==
  (pc = "file_loop" /\ file_pos <= Len(crx_files))
    => LET crx == <<doy, hour_subdir, SubSeq(file_name, 1, Len(file_name) - 1)>>
           rnx == ConvertedOf(local_path)
       IN (local[rnx] = "absent" /\ local[crx] # "absent") => local[crx] = "full"

====
